---- MODULE Spec2Model ----
(***************************************************************************)
(* Model of the Mycelium subject codec (src/src/lib.rs): the Display and   *)
(* FromStr implementations of Environment, OwnershipGroup, Locator,        *)
(* GeoLocator, ServiceIdentifier, PayloadType and MyceliumSubject.         *)
(*                                                                         *)
(* A string is a sequence of atoms.  The atom "." is the separator         *)
(* character; every other atom is an indivisible run of non-separator      *)
(* characters ("prod", "US-CA", ...).  The empty string is <<>>.  No atom  *)
(* used below is the concatenation of other atoms, so equality of atom     *)
(* sequences coincides with equality of the strings they stand for.        *)
(***************************************************************************)
EXTENDS Integers, Sequences, FiniteSets, TLC

VARIABLES tokens, s, subject, geo, text, res, pc

vars == <<tokens, s, subject, geo, text, res, pc>>

(***************************************************************************)
(* Bounds of the model.                                                    *)
(***************************************************************************)
\* longest input string, in tokens
MaxTokens == 10
\* longest payload_identifier of a Subject that is formatted
MaxPayload == 2

(***************************************************************************)
(* Strings.                                                                *)
(***************************************************************************)
Dot == "."

Str(a) == <<a>>

EmptyStr == <<>>

\* format!("{}.{}", a, b)
format2(a, b) == a \o <<Dot>> \o b

\* format!("{}.{}.{}", a, b, c)
format3(a, b, c) == a \o <<Dot>> \o b \o <<Dot>> \o c

RECURSIVE split_from(_, _, _)
split_from(str, cur, acc) ==
  IF str = <<>> THEN Append(acc, cur)
  ELSE IF Head(str) = Dot
       THEN split_from(Tail(str), <<>>, Append(acc, cur))
       ELSE split_from(Tail(str), Append(cur, Head(str)), acc)

\* s.split('.').collect(): always at least one part
split(str) == split_from(str, <<>>, <<>>)

\* parts[i], zero-based as in the source
At(parts, i) == parts[i + 1]

\* whether parts[i] is a legal index (otherwise the access panics)
InBounds(parts, i) == i >= 0 /\ i < Len(parts)

(***************************************************************************)
(* Results: Ok(value), Err(message), or a panic (index out of bounds).     *)
(***************************************************************************)
Ok(v) == [kind |-> "ok", val |-> v]

Err(m) == [kind |-> "err", msg |-> m]

Panic == [kind |-> "panic"]

None == [kind |-> "none"]

IsOk(r) == r.kind = "ok"

IsErr(r) == r.kind = "err"

(***************************************************************************)
(* Error messages of the source.                                           *)
(***************************************************************************)
MsgInvalidEnvironment == "Invalid Environment string"

MsgInvalidOwnershipGroup == "Invalid OwnershipGroup string format. Expected: enterprise.op_group"

MsgInvalidIso == "Invalid ISO 3166-2 code"

MsgInvalidLocatorFormat == "Invalid GlobalLocator string format. Expected: iso.region.id"

MsgInvalidGeoLocator == "Invalid GlobalLocator string format."

MsgInvalidServiceIdentifier == "Invalid ServiceIdentifier string format. Expected: name.id"

MsgInvalidPayloadType == "Invalid PayloadType string"

MsgTooShort == "String too short to represent a local or global MyceliumSubject"

MsgTooShortGlobal == "String too short to represent a global MyceliumSubject"

(***************************************************************************)
(* Environment                                                             *)
(***************************************************************************)
Environment == {"Production", "Staging", "Dev"}

Environment_to_string(e) ==
  CASE e = "Production" -> Str("prod")
    [] e = "Staging"    -> Str("staging")
    [] e = "Dev"        -> Str("dev")

\* variant: also accepts the long form "production"
Environment_from_str_lenient(str) ==
  IF str = Str("prod") \/ str = Str("production") THEN Ok("Production")
  ELSE IF str = Str("staging") THEN Ok("Staging")
  ELSE IF str = Str("dev") THEN Ok("Dev")
  ELSE Err(MsgInvalidEnvironment)

Environment_from_str(str) ==
  IF str = Str("prod") THEN Ok("Production")
  ELSE IF str = Str("staging") THEN Ok("Staging")
  ELSE IF str = Str("dev") THEN Ok("Dev")
  ELSE Err(MsgInvalidEnvironment)

(***************************************************************************)
(* OwnershipGroup                                                          *)
(***************************************************************************)
OwnershipGroup_to_string(g) == format2(g.enterprise, g.op_group)

OwnershipGroup_from_str(str) ==
  LET parts == split(str) IN
  IF Len(parts) = 2
  THEN Ok([enterprise |-> At(parts, 0), op_group |-> At(parts, 1)])
  ELSE Err(MsgInvalidOwnershipGroup)

(***************************************************************************)
(* Locator and the ISO 3166-2 lookup                                       *)
(***************************************************************************)
\* the subdivision codes of the external table that the model uses
IsoCodes == {Str("US-CA"), Str("CA-QC")}

\* iso3166_2::from_code(code).is_some()
iso3166_2_from_code(code) == code \in IsoCodes

Locator_to_string(l) == format3(l.iso_3166_2, l.op_region, l.op_identifier)

Locator_from_str(str) ==
  LET parts == split(str) IN
  IF Len(parts) = 3
  THEN IF ~iso3166_2_from_code(At(parts, 0))
       THEN Err(MsgInvalidIso)
       ELSE Ok([iso_3166_2 |-> At(parts, 0),
                op_region |-> At(parts, 1),
                op_identifier |-> At(parts, 2)])
  ELSE Err(MsgInvalidLocatorFormat)

\* the codes Locator::from_str(str) hands to iso3166_2::from_code
Locator_from_str_lookups(str) ==
  LET parts == split(str) IN
  IF Len(parts) = 3 THEN <<At(parts, 0)>> ELSE <<>>

(***************************************************************************)
(* GeoLocator                                                              *)
(***************************************************************************)
Local == [tag |-> "Local"]

Global == [tag |-> "Global"]

LocatorOf(l) == [tag |-> "Locator", loc |-> l]

GeoLocator_to_string(g) ==
  CASE g.tag = "Local"   -> Str("local")
    [] g.tag = "Global"  -> Str("global")
    [] g.tag = "Locator" -> Locator_to_string(g.loc)

GeoLocator_from_str(str) ==
  LET parts == split(str) IN
  IF Len(parts) = 1
  THEN Ok(Local)
  ELSE LET l == Locator_from_str(str) IN
       IF IsOk(l) THEN Ok(LocatorOf(l.val)) ELSE Err(MsgInvalidGeoLocator)

(***************************************************************************)
(* ServiceIdentifier                                                       *)
(***************************************************************************)
ServiceIdentifier_to_string(i) == format2(i.service_name, i.instance_id)

ServiceIdentifier_from_str(str) ==
  LET parts == split(str) IN
  IF Len(parts) = 2
  THEN Ok([service_name |-> At(parts, 0), instance_id |-> At(parts, 1)])
  ELSE Err(MsgInvalidServiceIdentifier)

(***************************************************************************)
(* PayloadType                                                             *)
(***************************************************************************)
PayloadType == {"Heartbeat", "Data", "Diagnostics", "Command", "Event", "Custom"}

PayloadType_to_string(p) ==
  CASE p = "Heartbeat"   -> Str("heartbeat")
    [] p = "Data"        -> Str("data")
    [] p = "Diagnostics" -> Str("diagnostics")
    [] p = "Command"     -> Str("command")
    [] p = "Event"       -> Str("event")
    [] p = "Custom"      -> Str("custom")

\* variant: the "event" and "custom" arms exchanged
PayloadType_from_str_swapped(str) ==
  IF str = Str("heartbeat") THEN Ok("Heartbeat")
  ELSE IF str = Str("data") THEN Ok("Data")
  ELSE IF str = Str("diagnostics") THEN Ok("Diagnostics")
  ELSE IF str = Str("command") THEN Ok("Command")
  ELSE IF str = Str("event") THEN Ok("Custom")
  ELSE IF str = Str("custom") THEN Ok("Event")
  ELSE Err(MsgInvalidPayloadType)

PayloadType_from_str(str) ==
  IF str = Str("heartbeat") THEN Ok("Heartbeat")
  ELSE IF str = Str("data") THEN Ok("Data")
  ELSE IF str = Str("diagnostics") THEN Ok("Diagnostics")
  ELSE IF str = Str("command") THEN Ok("Command")
  ELSE IF str = Str("event") THEN Ok("Event")
  ELSE IF str = Str("custom") THEN Ok("Custom")
  ELSE Err(MsgInvalidPayloadType)

(***************************************************************************)
(* MyceliumSubject: Display                                                *)
(***************************************************************************)
\* for part in &self.payload_identifier { write!(f, ".{}", part)?; }
RECURSIVE write_payload_identifier(_)
write_payload_identifier(ids) ==
  IF ids = <<>> THEN EmptyStr
  ELSE <<Dot>> \o Head(ids) \o write_payload_identifier(Tail(ids))

\* variant: the loop over payload_identifier left out
MyceliumSubject_to_string_no_payload(S) ==
  Environment_to_string(S.environment) \o <<Dot>>
    \o OwnershipGroup_to_string(S.ownership_group) \o <<Dot>>
    \o GeoLocator_to_string(S.geo_locator) \o <<Dot>>
    \o ServiceIdentifier_to_string(S.service_identifier) \o <<Dot>>
    \o PayloadType_to_string(S.payload_type)

MyceliumSubject_to_string(S) ==
  Environment_to_string(S.environment) \o <<Dot>>
    \o OwnershipGroup_to_string(S.ownership_group) \o <<Dot>>
    \o GeoLocator_to_string(S.geo_locator) \o <<Dot>>
    \o ServiceIdentifier_to_string(S.service_identifier) \o <<Dot>>
    \o PayloadType_to_string(S.payload_type)
    \o write_payload_identifier(S.payload_identifier)

(***************************************************************************)
(* MyceliumSubject: FromStr.  The parse is modelled together with what it  *)
(* touches: `out` is the returned value (or a panic), `reads` the indices  *)
(* of `parts` it evaluated, `lookups` the codes it handed to the ISO       *)
(* table, `slice` the start of the payload slice once it was taken.        *)
(***************************************************************************)
Outcome(out, reads, lookups, slice) ==
  [out |-> out, reads |-> reads, lookups |-> lookups, slice |-> slice]

\* the indices of idxs evaluated, in order, up to and including the first
\* one that is out of bounds
RECURSIVE reads_of(_, _)
reads_of(parts, idxs) ==
  IF idxs = <<>> THEN {}
  ELSE IF ~InBounds(parts, Head(idxs)) THEN {Head(idxs)}
  ELSE {Head(idxs)} \union reads_of(parts, Tail(idxs))

all_in_bounds(parts, idxs) ==
  \A k \in 1..Len(idxs) : InBounds(parts, idxs[k])

\* variant: minimum of 6 tokens instead of 7
too_short_off_by_one(parts) == Len(parts) < 6

\* if parts.len() < 7
too_short(parts) == Len(parts) < 7

\* variant: minimum of 8 tokens instead of 9
too_short_global_off_by_one(parts) == Len(parts) < 8

\* if parts.len() < 9
too_short_global(parts) == Len(parts) < 9

\* variant: the "global" arm left out
geo_branch_local_only(tok) ==
  IF tok = Str("local") THEN "Local" ELSE "Locator"

\* if parts[3] == "local" .. else if parts[3] == "global" .. else ..
geo_branch(tok) ==
  IF tok = Str("local") THEN "Local"
  ELSE IF tok = Str("global") THEN "Global"
  ELSE "Locator"

\* variant: slice taken from 8 + offset instead of 7 + offset
payload_slice_skipping_one(parts, from) ==
  IF from + 1 > Len(parts) THEN <<>> ELSE SubSeq(parts, from + 2, Len(parts))

\* parts[from..].iter().map(|s| s.to_string()).collect(), for from <= len
payload_slice(parts, from) == SubSeq(parts, from + 1, Len(parts))

\* service identifier, payload type and payload identifier, located by
\* global_offset
parse_tail(parts, environment, ownership_group, geo_locator, global_offset, reads, lookups) ==
  LET si_idx == <<4 + global_offset, 5 + global_offset>>
      r1 == reads \union reads_of(parts, si_idx)
  IN
  IF ~all_in_bounds(parts, si_idx) THEN Outcome(Panic, r1, lookups, <<>>)
  ELSE
  LET service_identifier ==
        ServiceIdentifier_from_str(
          format2(At(parts, 4 + global_offset), At(parts, 5 + global_offset)))
      pt_idx == 6 + global_offset
      r2 == r1 \union {pt_idx}
  IN
  IF IsErr(service_identifier)
  THEN Outcome(service_identifier, r1, lookups, <<>>)
  ELSE IF ~InBounds(parts, pt_idx) THEN Outcome(Panic, r2, lookups, <<>>)
  ELSE
  LET payload_type == PayloadType_from_str(At(parts, pt_idx))
      from == 7 + global_offset
  IN
  IF IsErr(payload_type) THEN Outcome(payload_type, r2, lookups, <<>>)
  ELSE IF from > Len(parts) THEN Outcome(Panic, r2, lookups, <<from>>)
  ELSE Outcome(
         Ok([environment |-> environment,
             ownership_group |-> ownership_group,
             geo_locator |-> geo_locator,
             service_identifier |-> service_identifier.val,
             payload_type |-> payload_type.val,
             payload_identifier |-> payload_slice(parts, from)]),
         r2, lookups, <<from>>)

\* the geo-locator branch on parts[3]
parse_geo(parts, environment, ownership_group, reads) ==
  IF ~InBounds(parts, 3) THEN Outcome(Panic, reads \union {3}, <<>>, <<>>)
  ELSE
  LET branch == geo_branch(At(parts, 3))
      r1 == reads \union {3}
  IN
  IF branch = "Local"
  THEN parse_tail(parts, environment, ownership_group, Local, 0, r1, <<>>)
  ELSE IF branch = "Global"
  THEN parse_tail(parts, environment, ownership_group, Global, 0, r1, <<>>)
  ELSE IF too_short_global(parts)
  THEN Outcome(Err(MsgTooShortGlobal), r1, <<>>, <<>>)
  ELSE
  LET loc_idx == <<3, 4, 5>>
      r2 == r1 \union reads_of(parts, loc_idx)
  IN
  IF ~all_in_bounds(parts, loc_idx) THEN Outcome(Panic, r2, <<>>, <<>>)
  ELSE
  LET global_locator_str == format3(At(parts, 3), At(parts, 4), At(parts, 5))
      locator == Locator_from_str(global_locator_str)
      lookups == Locator_from_str_lookups(global_locator_str)
  IN
  IF IsErr(locator) THEN Outcome(locator, r2, lookups, <<>>)
  ELSE parse_tail(parts, environment, ownership_group, LocatorOf(locator.val),
                  2, r2, lookups)

\* MyceliumSubject::from_str with its trace
MyceliumSubject_parse(str) ==
  LET parts == split(str) IN
  IF too_short(parts) THEN Outcome(Err(MsgTooShort), {}, <<>>, <<>>)
  ELSE IF ~InBounds(parts, 0) THEN Outcome(Panic, {0}, <<>>, <<>>)
  ELSE
  LET environment == Environment_from_str(At(parts, 0))
      og_idx == <<1, 2>>
      r1 == {0} \union reads_of(parts, og_idx)
  IN
  IF IsErr(environment) THEN Outcome(environment, {0}, <<>>, <<>>)
  ELSE IF ~all_in_bounds(parts, og_idx) THEN Outcome(Panic, r1, <<>>, <<>>)
  ELSE
  LET ownership_group ==
        OwnershipGroup_from_str(format2(At(parts, 1), At(parts, 2)))
  IN
  IF IsErr(ownership_group) THEN Outcome(ownership_group, r1, <<>>, <<>>)
  ELSE parse_geo(parts, environment.val, ownership_group.val, r1)

(***************************************************************************)
(* Inputs.                                                                 *)
(***************************************************************************)
\* the tokens tried at position i (zero-based) of an input string: the
\* tokens that position decides on, valid and invalid, and the empty token
TokensAt(i) ==
  CASE i = 0 -> {Str("prod"), Str("dev"), Str("production"), EmptyStr}
    [] i = 1 -> {Str("abc"), EmptyStr}
    [] i = 2 -> {Str("xyz"), EmptyStr}
    [] i = 3 -> {Str("local"), Str("global"), Str("US-CA"), Str("US-AA"), EmptyStr}
    [] i = 4 -> {Str("plc-gateway"), Str("south"), EmptyStr}
    [] i = 5 -> {Str("1"), Str("abc"), EmptyStr}
    [] i = 6 -> {Str("data"), Str("datas"), Str("plc-gateway")}
    [] i = 7 -> {Str("1"), EmptyStr}
    [] i = 8 -> {Str("data"), Str("custom"), Str("datas")}
    [] OTHER -> {Str("system"), EmptyStr}

\* field values of the Subjects that are formatted: plain, empty, and one
\* holding the separator
DottedStr == <<"a", ".", "b">>

RECURSIVE SeqsUpTo(_, _)
SeqsUpTo(S, n) ==
  IF n = 0 THEN {<<>>}
  ELSE SeqsUpTo(S, n - 1)
         \union {Append(q, x) : q \in {r \in SeqsUpTo(S, n - 1) : Len(r) = n - 1},
                                x \in S}

Locators ==
  [iso_3166_2 : {Str("US-CA"), Str("CA-QC"), Str("US-AA"), Str("local"), EmptyStr},
   op_region : {Str("south"), EmptyStr, DottedStr},
   op_identifier : {Str("abc"), EmptyStr, DottedStr}]

GeoLocators == {Local, Global} \union {LocatorOf(l) : l \in Locators}

SubjectLocators ==
  [iso_3166_2 : {Str("US-CA"), Str("US-AA"), Str("local")},
   op_region : {Str("south"), DottedStr},
   op_identifier : {Str("abc")}]

Subjects ==
  [environment : Environment,
   ownership_group : [enterprise : {Str("abc"), DottedStr},
                      op_group : {Str("xyz"), EmptyStr}],
   geo_locator : {Local, Global} \union {LocatorOf(l) : l \in SubjectLocators},
   service_identifier : [service_name : {Str("gw"), EmptyStr},
                         instance_id : {Str("1"), DottedStr}],
   payload_type : PayloadType,
   payload_identifier : SeqsUpTo({Str("sys"), EmptyStr, DottedStr}, MaxPayload)]

(***************************************************************************)
(* Writing a string token by token, parsing it, then formatting what was   *)
(* parsed.                                                                 *)
(***************************************************************************)
Init ==
  /\ tokens \in {<<x>> : x \in TokensAt(0)}
  /\ s = tokens[1]
  /\ subject = None
  /\ geo = None
  /\ text = None
  /\ res = None
  /\ pc = "start"

\* the caller writes one more token onto the string before parsing it
Extend ==
  /\ pc = "start"
  /\ Len(tokens) < MaxTokens
  /\ \E x \in TokensAt(Len(tokens)) :
       /\ tokens' = Append(tokens, x)
       /\ s' = format2(s, x)
  /\ UNCHANGED <<subject, geo, text, res, pc>>

\* MyceliumSubject::from_str(s)
FromStr ==
  /\ pc = "start"
  /\ res' = MyceliumSubject_parse(s)
  /\ subject' = IF IsOk(res'.out) THEN res'.out.val ELSE None
  /\ pc' = IF IsOk(res'.out) THEN "parsed" ELSE "rejected"
  /\ UNCHANGED <<tokens, s, geo, text>>

\* res.to_string()
PrintParsed ==
  /\ pc = "parsed"
  /\ text' = MyceliumSubject_to_string(subject)
  /\ pc' = "printed"
  /\ UNCHANGED <<tokens, s, subject, geo, res>>

Next == Extend \/ FromStr \/ PrintParsed

Spec == Init /\ [][Next]_vars

(***************************************************************************)
(* Formatting a Subject, then parsing the string.                          *)
(***************************************************************************)
InitSubject ==
  /\ tokens = <<>>
  /\ s = None
  /\ subject \in Subjects
  /\ geo = None
  /\ text = None
  /\ res = None
  /\ pc = "built"

\* subject.to_string()
FormatSubject ==
  /\ pc = "built"
  /\ text' = MyceliumSubject_to_string(subject)
  /\ pc' = "formatted"
  /\ UNCHANGED <<tokens, s, subject, geo, res>>

\* MyceliumSubject::from_str(&text)
ReparseSubject ==
  /\ pc = "formatted"
  /\ res' = MyceliumSubject_parse(text)
  /\ pc' = "reparsed"
  /\ UNCHANGED <<tokens, s, subject, geo, text>>

NextSubject == FormatSubject \/ ReparseSubject

SpecSubject == InitSubject /\ [][NextSubject]_vars

(***************************************************************************)
(* Formatting a GeoLocator, then parsing the string.                       *)
(***************************************************************************)
InitGeo ==
  /\ tokens = <<>>
  /\ s = None
  /\ subject = None
  /\ geo \in GeoLocators
  /\ text = None
  /\ res = None
  /\ pc = "geo_built"

\* geo.to_string()
FormatGeo ==
  /\ pc = "geo_built"
  /\ text' = GeoLocator_to_string(geo)
  /\ pc' = "geo_formatted"
  /\ UNCHANGED <<tokens, s, subject, geo, res>>

\* GeoLocator::from_str(&text)
ReparseGeo ==
  /\ pc = "geo_formatted"
  /\ res' = GeoLocator_from_str(text)
  /\ pc' = "geo_reparsed"
  /\ UNCHANGED <<tokens, s, subject, geo, text>>

NextGeo == FormatGeo \/ ReparseGeo

SpecGeo == InitGeo /\ [][NextGeo]_vars

(***************************************************************************)
(* Vocabulary of the properties.                                           *)
(***************************************************************************)
EnvironmentTokens == {Str("prod"), Str("staging"), Str("dev")}

PayloadTypeTokens ==
  {Str("heartbeat"), Str("data"), Str("diagnostics"), Str("command"),
   Str("event"), Str("custom")}

SentinelTokens == {Str("local"), Str("global")}

\* token i of the input string, zero-based
Tok(i) == tokens[i + 1]

NTokens == Len(tokens)

Parsed == pc \in {"parsed", "printed"}

Returned == pc \in {"parsed", "printed", "rejected"}

HasDot(str) == \E k \in 1..Len(str) : str[k] = Dot

\* number of extra tokens the geo-locator of a parsed Subject took
GeoExtra(S) == IF S.geo_locator.tag = "Locator" THEN 2 ELSE 0

(***************************************************************************)
(* C1. Canonical uniqueness: whenever from_str(s) succeeds with Subject S, *)
(* S.to_string() is exactly s.                                             *)
(***************************************************************************)
C1_CanonicalUniqueness == pc = "printed" => text = s

C1_Witness ==
  /\ pc = "printed"
  /\ NTokens >= 10
  /\ Tok(3) = Str("US-CA")
  /\ \E i \in 0..(NTokens - 1) : Tok(i) = EmptyStr

(***************************************************************************)
(* C2. Round trip, as stated: for ANY Subject S, from_str(S.to_string())   *)
(* succeeds and equals S.                                                  *)
(***************************************************************************)
C2_RoundTripAnySubject ==
  pc = "reparsed" => IsOk(res.out) /\ res.out.val = subject

\* no string of S holds the separator, and a Locator carries a code the
\* ISO table accepts
SeparatorFree(S) ==
  /\ ~HasDot(S.ownership_group.enterprise)
  /\ ~HasDot(S.ownership_group.op_group)
  /\ ~HasDot(S.service_identifier.service_name)
  /\ ~HasDot(S.service_identifier.instance_id)
  /\ \A k \in 1..Len(S.payload_identifier) : ~HasDot(S.payload_identifier[k])
  /\ S.geo_locator.tag = "Locator" =>
       /\ S.geo_locator.loc.iso_3166_2 \in IsoCodes
       /\ ~HasDot(S.geo_locator.loc.op_region)
       /\ ~HasDot(S.geo_locator.loc.op_identifier)

(***************************************************************************)
(* C2, amended. Round trip for every Subject none of whose strings holds   *)
(* the "." separator and whose Locator, if any, carries an accepted region *)
(* code: from_str(S.to_string()) succeeds and equals S.                    *)
(***************************************************************************)
C2_RoundTripSeparatorFree ==
  pc = "reparsed" /\ SeparatorFree(subject) =>
    IsOk(res.out) /\ res.out.val = subject

C2_Witness ==
  /\ pc = "reparsed"
  /\ SeparatorFree(subject)
  /\ subject.geo_locator.tag = "Locator"
  /\ subject.payload_type = "Custom"
  /\ Len(subject.payload_identifier) >= 2
  /\ subject.payload_identifier[1] = EmptyStr

(***************************************************************************)
(* C3. Arity boundary: fewer than 7 tokens always fails with the too-short *)
(* error, whatever the tokens; exactly 7 tokens succeed when token 0 is an *)
(* environment token, token 3 a sentinel and token 6 a payload-type token. *)
(***************************************************************************)
C3_ArityBoundary ==
  Returned =>
    /\ NTokens < 7 => IsErr(res.out) /\ res.out.msg = MsgTooShort
    /\ ( /\ NTokens = 7
         /\ Tok(0) \in EnvironmentTokens
         /\ Tok(3) \in SentinelTokens
         /\ Tok(6) \in PayloadTypeTokens ) => IsOk(res.out)

C3_Witness ==
  /\ pc = "rejected"
  /\ NTokens = 6
  /\ Tok(0) = Str("production")
  /\ Tok(3) = Str("US-AA")

(***************************************************************************)
(* C4. Sentinel priority: whenever token 3 is "local" or "global" the ISO  *)
(* table is never consulted, and a resulting Subject has the sentinel      *)
(* variant, its service identifier from tokens 4-5, its payload type from  *)
(* token 6 and its payload identifier from token 7 on, however many tokens *)
(* follow.                                                                 *)
(***************************************************************************)
C4_SentinelPriority ==
  Returned /\ NTokens >= 4 /\ Tok(3) \in SentinelTokens =>
    /\ res.lookups = <<>>
    /\ IsOk(res.out) =>
         /\ res.out.val.geo_locator =
              (IF Tok(3) = Str("local") THEN Local ELSE Global)
         /\ res.out.val.service_identifier =
              [service_name |-> Tok(4), instance_id |-> Tok(5)]
         /\ PayloadType_to_string(res.out.val.payload_type) = Tok(6)
         /\ res.out.val.payload_identifier = SubSeq(tokens, 8, NTokens)

C4_Witness ==
  /\ pc = "parsed"
  /\ Tok(3) = Str("global")
  /\ NTokens >= 9

(***************************************************************************)
(* C5. Geo validation gating: with a valid environment, no empty token,    *)
(* token 3 not a sentinel and rejected by the ISO table, and at least the  *)
(* minimum of 7 tokens (so at least 3 from position 3 on), the parse fails *)
(* with the invalid-code error and no other; with an accepted code and     *)
(* every other field valid it succeeds.                                    *)
(***************************************************************************)
C5_GeoValidationGating ==
  ( /\ Returned
    /\ NTokens >= 7
    /\ Tok(0) \in EnvironmentTokens
    /\ \A i \in 0..(NTokens - 1) : Tok(i) # EmptyStr
    /\ Tok(3) \notin SentinelTokens )
  =>
    /\ Tok(3) \notin IsoCodes => IsErr(res.out) /\ res.out.msg = MsgInvalidIso
    /\ (Tok(3) \in IsoCodes /\ NTokens >= 9 /\ Tok(8) \in PayloadTypeTokens)
         => IsOk(res.out)

(***************************************************************************)
(* C6. First failure wins for the environment: with at least 7 tokens and  *)
(* token 0 not exactly "prod", "staging" or "dev", the parse fails with    *)
(* the invalid-environment error and yields no Subject, whatever the later *)
(* tokens are.                                                             *)
(***************************************************************************)
C6_EnvironmentFirstFailure ==
  Returned /\ NTokens >= 7 /\ Tok(0) \notin EnvironmentTokens =>
    /\ IsErr(res.out) /\ res.out.msg = MsgInvalidEnvironment
    /\ pc = "rejected"
    /\ subject = None

C6_Witness ==
  /\ pc = "rejected"
  /\ NTokens = 8
  /\ Tok(0) = Str("production")
  /\ Tok(3) = Str("US-AA")
  /\ Tok(6) = Str("datas")

(***************************************************************************)
(* C7. Payload path: on every successful parse, with k = 0 for a sentinel  *)
(* geo-locator and k = 2 for a Locator, the service identifier is tokens   *)
(* (4+k, 5+k), the payload type is decoded from token 6+k and the payload  *)
(* identifier is tokens 7+k .. n-1 in order; with n = 7+k it is empty and  *)
(* the Subject formats back to the identical string.                       *)
(***************************************************************************)
C7_PayloadPath ==
  Parsed =>
    LET k == GeoExtra(subject) IN
    /\ NTokens >= 7 + k
    /\ subject.service_identifier =
         [service_name |-> Tok(4 + k), instance_id |-> Tok(5 + k)]
    /\ PayloadType_to_string(subject.payload_type) = Tok(6 + k)
    /\ Len(subject.payload_identifier) = NTokens - (7 + k)
    /\ \A j \in 1..Len(subject.payload_identifier) :
         subject.payload_identifier[j] = Tok(7 + k + j - 1)
    /\ NTokens = 7 + k =>
         /\ subject.payload_identifier = <<>>
         /\ pc = "printed" => text = s

C7_Witness ==
  /\ pc = "printed"
  /\ subject.geo_locator.tag = "Locator"
  /\ NTokens = 10
  /\ subject.payload_identifier = <<Str("system")>>

(***************************************************************************)
(* C8. Field-level bijection for the geo-locator: for Local, Global and    *)
(* every Locator with an accepted region code, GeoLocator::from_str of its *)
(* string form succeeds and returns the same value.                        *)
(***************************************************************************)
C8_GeoLocatorBijection ==
  ( /\ pc = "geo_reparsed"
    /\ geo.tag = "Locator" =>
         /\ geo.loc.iso_3166_2 \in IsoCodes
         /\ ~HasDot(geo.loc.op_region)
         /\ ~HasDot(geo.loc.op_identifier) )
  => IsOk(res) /\ res.val = geo

(***************************************************************************)
(* C9. Non-empty sub-fields: in every Subject a successful parse returns,  *)
(* enterprise, op_group, service_name and instance_id are non-empty.       *)
(***************************************************************************)
C9_NonEmptySubFields ==
  Parsed =>
    /\ subject.ownership_group.enterprise # EmptyStr
    /\ subject.ownership_group.op_group # EmptyStr
    /\ subject.service_identifier.service_name # EmptyStr
    /\ subject.service_identifier.instance_id # EmptyStr

(***************************************************************************)
(* C10. Parsing is total and never panics: every parse returns a Subject   *)
(* or an error, every index of the token sequence it reads is in bounds    *)
(* (0..6 on a sentinel success, 0..8 on a Locator success), and so is the  *)
(* start 7+offset of the payload slice.                                    *)
(***************************************************************************)
C10_ParseNeverPanics ==
  Returned =>
    /\ res.out.kind \in {"ok", "err"}
    /\ \A i \in res.reads : i >= 0 /\ i < NTokens
    /\ \A j \in 1..Len(res.slice) : res.slice[j] >= 0 /\ res.slice[j] <= NTokens
    /\ IsOk(res.out) =>
         /\ res.reads = 0..(6 + GeoExtra(res.out.val))
         /\ res.slice = <<7 + GeoExtra(res.out.val)>>

C10_Witness ==
  /\ pc = "parsed"
  /\ NTokens = 9
  /\ 8 \in res.reads
  /\ res.slice = <<9>>

====
